---- MODULE Spec2Model ----
(***************************************************************************)
(* Markdown section utilities of .github/workflows/auto_doc.py             *)
(* (get_heading_regex .. add_or_replace_markdown_section_content).         *)
(*                                                                         *)
(* A Python str is a sequence of one-character strings.  A Python list     *)
(* index is kept 0-based, as in the source; At(lines, i) reads lines[i].   *)
(* A call that raises is a result whose err field names the exception.     *)
(***************************************************************************)
EXTENDS Integers, Sequences, FiniteSets, TLC

VARIABLES markdown_string, op, args, res, res2

vars == <<markdown_string, op, args, res, res2>>

(***************************************************************************)
(* Bounds of the model and the input alphabet.                             *)
(***************************************************************************)
MaxLines == 3

\* Python's None for an int | None value (find_markdown_heading's result,
\* end_line); every index the code computes before testing "is None" is >= 0.
None == -1

\* Python's None for a str | None value (after_heading).
NoneStr == <<"None">>

\* str.isspace() / regex \s, over the characters of the model.
Whitespace == {" ", "\n"}

\* The line contents documents are built from: headings of levels 1..3 with
\* titles "b", "a", "ab"; a text line with trailing whitespace; a blank
\* line; a bare marker.
LineTexts ==
    { <<"#", " ", "b">>,
      <<"#", "#", " ", "a">>,
      <<"#", "#", " ", "a", "b">>,
      <<"#", "#", "#", " ", "b">>,
      <<"x", " ">>,
      <<>>,
      <<"#">> }

Titles == { <<"a">>, <<" ", "b", " ">> }

\* new_content: a level-2 section titled "a" whose last line is terminated,
\* a text line that is not, and the empty string
Contents ==
    { <<"#", "#", " ", "a", "\n", "x", " ", "\n">>,
      <<"x">>,
      <<>> }

AfterHeadings == { NoneStr, <<>>, <<"b">> }

\* the placement hints an upsert is called with: none, after a heading, at
\* the beginning
Placements == { <<NoneStr, FALSE>>, <<<<"b">>, FALSE>>, <<NoneStr, TRUE>> }

Levels == { None, 2 }

StartLines == { 0, 1 }

(***************************************************************************)
(* str and list primitives.                                                *)
(***************************************************************************)
RECURSIVE Join(_, _)
\* sep.join(parts)
Join(sep, parts) ==
    IF parts = <<>> THEN <<>>
    ELSE IF Len(parts) = 1 THEN parts[1]
    ELSE parts[1] \o sep \o Join(sep, Tail(parts))

RECURSIVE rstrip(_)
\* str.rstrip()
rstrip(s) ==
    IF s = <<>> THEN s
    ELSE IF s[Len(s)] \in Whitespace THEN rstrip(SubSeq(s, 1, Len(s) - 1))
    ELSE s

RECURSIVE lstrip(_)
\* str.lstrip()
lstrip(s) ==
    IF s = <<>> THEN s
    ELSE IF s[1] \in Whitespace THEN lstrip(Tail(s))
    ELSE s

\* str.strip()
strip(s) == lstrip(rstrip(s))

\* lines[i], 0-based
At(lines, i) == lines[i + 1]

\* lines[:n], with Python's reading of a negative or too large n
SliceTo(lines, n) ==
    LET m == IF n < 0 THEN Len(lines) + n ELSE n
        k == IF m < 0 THEN 0 ELSE IF m > Len(lines) THEN Len(lines) ELSE m
    IN  SubSeq(lines, 1, k)

\* lines[n:], with Python's reading of a negative or too large n
SliceFrom(lines, n) ==
    LET m == IF n < 0 THEN Len(lines) + n ELSE n
        k == IF m < 0 THEN 0 ELSE IF m > Len(lines) THEN Len(lines) ELSE m
    IN  SubSeq(lines, k + 1, Len(lines))

\* a truthy str | None: neither None nor ""
Truthy(s) == s # NoneStr /\ s # <<>>

(***************************************************************************)
(* The documents of the model: up to MaxLines lines of LineTexts, joined   *)
(* by "\n", with or without a final line terminator.                       *)
(***************************************************************************)
LineSeqs == UNION { [1..n -> LineTexts] : n \in 0..MaxLines }

Docs ==
    { Join(<<"\n">>, ls) \o (IF nl THEN <<"\n">> ELSE <<>>) :
        ls \in LineSeqs, nl \in BOOLEAN }

(***************************************************************************)
(* Heading patterns.                                                       *)
(***************************************************************************)
\* s[from..] starts with prefix (from is 1-based)
StartsWithAt(s, from, prefix) ==
    /\ from + Len(prefix) - 1 <= Len(s)
    /\ \A j \in 1..Len(prefix) : s[from + j - 1] = prefix[j]

\* re.match(get_heading_regex(heading_title, level), line):
\* ^(#+)\s+TITLE or ^#{level}\s+TITLE with TITLE = heading_title.strip(),
\* a title of literal characters.  k is the marker run the pattern takes,
\* m the whitespace run; the match is anchored at the line's start only.
HeadingRegexMatches(line, heading_title, level) ==
    \E k \in 1..Len(line) : \E m \in 1..Len(line) :
        /\ k + m <= Len(line)
        /\ level # None => k = level
        /\ \A j \in 1..k : line[j] = "#"
        /\ \A j \in (k + 1)..(k + m) : line[j] \in Whitespace
        /\ StartsWithAt(line, k + m + 1, strip(heading_title))

RECURSIVE MarkerRun(_)
\* the length of the run of "#" a line starts with
MarkerRun(line) ==
    IF line = <<>> \/ line[1] # "#" THEN 0 ELSE 1 + MarkerRun(Tail(line))

\* re.match(r"^(#+)\s+", line) is not None
IsHeadingLine(line) ==
    /\ MarkerRun(line) >= 1
    /\ Len(line) > MarkerRun(line)
    /\ line[MarkerRun(line) + 1] \in Whitespace

\* get_heading_level on a line the pattern matches: len(group(1)); the
\* greedy (#+) takes the whole marker run, as whitespace must follow it.
get_heading_level(heading_line) == MarkerRun(heading_line)

\* the 0-based indices i >= start_line of the lines the title pattern matches
MatchingLines(markdown_lines, heading, level, start_line) ==
    { i \in 0..(Len(markdown_lines) - 1) :
        /\ i >= start_line
        /\ HeadingRegexMatches(At(markdown_lines, i), heading, level) }

\* the least element of a non-empty set of integers
Min(S) == CHOOSE x \in S : \A y \in S : x <= y

find_markdown_heading(markdown_lines, heading, level, start_line) ==
    LET found == MatchingLines(markdown_lines, heading, level, start_line)
    IN  IF found = {} THEN None ELSE Min(found)

(***************************************************************************)
(* Results.  err is "none" or the exception the call raises; the other     *)
(* fields hold what the call returns and are blank where it returns none.  *)
(***************************************************************************)
Blank == [err |-> "none", start |-> None, end |-> None, doc |-> <<>>, changed |-> FALSE]

Raise(e) == [Blank EXCEPT !.err = e]

\* the 0-based i of enumerate(markdown_lines[start+1:]) at which the second
\* loop of find_markdown_section breaks: heading lines no deeper than lvl
Stops(markdown_lines, start, lvl) ==
    LET rest == SliceFrom(markdown_lines, start + 1)
    IN  { i \in 0..(Len(rest) - 1) :
            /\ IsHeadingLine(At(rest, i))
            /\ get_heading_level(At(rest, i)) <= lvl }

\* a variant of end_line that counts i from start_line + 1, the line the
\* second loop starts at
end_line_from_next(markdown_lines, start, lvl) ==
    IF Stops(markdown_lines, start, lvl) = {} THEN Len(markdown_lines)
    ELSE start + 1 + Min(Stops(markdown_lines, start, lvl))

\* end_line as find_markdown_section leaves it: start_line + i at the break,
\* len(markdown_lines) - 1 without one
end_line(markdown_lines, start, lvl) ==
    IF Stops(markdown_lines, start, lvl) = {} THEN Len(markdown_lines) - 1
    ELSE start + Min(Stops(markdown_lines, start, lvl))

\* find_markdown_section: (start_line, end_line), or the exception raised
\* by markdown_lines[start_line] or by get_heading_level's .group on a
\* failed match.
find_markdown_section(markdown_lines, section_title, level, start_line) ==
    LET found == MatchingLines(markdown_lines, section_title, level, start_line)
        \* the loop's break: start_line += i; without a match it is untouched
        start == IF found = {} THEN start_line ELSE Min(found)
    IN  IF start = None THEN Blank
        ELSE IF start >= Len(markdown_lines) THEN Raise("IndexError")
        ELSE IF ~IsHeadingLine(At(markdown_lines, start)) THEN Raise("AttributeError")
        ELSE [Blank EXCEPT
                !.start = start,
                !.end = end_line(markdown_lines, start,
                                 get_heading_level(At(markdown_lines, start)))]

(***************************************************************************)
(* Serialization.                                                          *)
(***************************************************************************)
\* [line.rstrip() for line in lines]
StripAll(lines) == [i \in 1..Len(lines) |-> rstrip(lines[i])]

lines_to_string(lines) == Join(<<"\n">>, StripAll(lines))

\* the 1-based positions of the line terminators of a string
Terminators(string) == { i \in 1..Len(string) : string[i] = "\n" }

RECURSIVE string_to_lines(_)
\* str.splitlines(keepends=True): every line keeps its terminator; text
\* after the last terminator is a last line without one.
string_to_lines(string) ==
    IF string = <<>> THEN <<>>
    ELSE IF Terminators(string) = {} THEN <<string>>
    ELSE LET i == Min(Terminators(string))
         IN  <<SubSeq(string, 1, i)>> \o string_to_lines(SubSeq(string, i + 1, Len(string)))

(***************************************************************************)
(* The section editor.                                                     *)
(***************************************************************************)
replace_markdown_section_content(md, section_title, new_content, replace_heading) ==
    LET markdown_lines == string_to_lines(md)
        sec == find_markdown_section(markdown_lines, section_title, None, 0)
    IN  IF sec.err # "none" THEN Raise(sec.err)
        ELSE IF sec.start = None
             THEN [Blank EXCEPT !.doc = lines_to_string(markdown_lines), !.changed = FALSE]
        ELSE
          LET start_line == IF ~replace_heading THEN sec.start + 1 ELSE sec.start
              new_markdown_lines ==
                  SliceTo(markdown_lines, start_line - 1)
                  \o string_to_lines(new_content)
                  \o SliceFrom(markdown_lines, sec.end + 1)
          IN  [Blank EXCEPT !.doc = lines_to_string(new_markdown_lines), !.changed = TRUE]

\* a variant of the placement assertion that never fails
no_conflict(after_heading, at_begining) == FALSE

\* the negation of add_markdown_section's assertion
placement_conflict(after_heading, at_begining) ==
    Truthy(after_heading) /\ at_begining

\* a variant of prepend that puts the new content last
append_instead(new_content, md) == md \o new_content

\* new_content + markdown_string
prepend(new_content, md) == new_content \o md

add_markdown_section(md, new_content, after_heading, at_begining) ==
    IF placement_conflict(after_heading, at_begining) THEN Raise("AssertionError")
    ELSE IF at_begining
         THEN [Blank EXCEPT !.doc = prepend(new_content, md), !.changed = TRUE]
    ELSE
      LET markdown_lines == string_to_lines(md)
          found == IF Truthy(after_heading)
                   THEN find_markdown_heading(markdown_lines, after_heading, None, 0)
                   ELSE None
          start_line == IF found = None THEN Len(markdown_lines) - 1 ELSE found
          new_markdown_lines ==
              SliceTo(markdown_lines, start_line + 1)
              \o string_to_lines(new_content)
              \o SliceFrom(markdown_lines, start_line + 1)
      IN  [Blank EXCEPT !.doc = Join(<<"\n">>, new_markdown_lines), !.changed = TRUE]

\* The fallback calls add_markdown_section(..., at_beginning=...), a keyword
\* the callee (whose parameter is at_begining) does not have: the call
\* raises TypeError before the callee's body runs.
add_or_replace_markdown_section_content(md, section_title, new_content, replace_heading, after_heading, at_beginning) ==
    LET r == replace_markdown_section_content(md, section_title, new_content, replace_heading)
    IN  IF r.err # "none" THEN Raise(r.err)
        ELSE IF r.changed THEN [Blank EXCEPT !.doc = r.doc]
        ELSE Raise("TypeError")

(***************************************************************************)
(* The state machine: a document, then one call on it; a successful        *)
(* upsert may be followed by the same upsert on its result.                *)
(***************************************************************************)
NoArgs ==
    [title |-> <<>>, level |-> None, start_line |-> 0, new_content |-> <<>>,
     replace_heading |-> FALSE, after_heading |-> NoneStr, at_beginning |-> FALSE]

Init ==
    /\ markdown_string \in Docs
    /\ op = "init"
    /\ args = NoArgs
    /\ res = Blank
    /\ res2 = Blank

FindSection ==
    /\ op = "init"
    /\ \E t \in Titles, l \in Levels, s \in StartLines :
        /\ args' = [NoArgs EXCEPT !.title = t, !.level = l, !.start_line = s]
        /\ res' = find_markdown_section(string_to_lines(markdown_string), t, l, s)
    /\ op' = "find"
    /\ UNCHANGED <<markdown_string, res2>>

ReplaceSection ==
    /\ op = "init"
    /\ \E t \in Titles, c \in Contents, rh \in BOOLEAN :
        /\ args' = [NoArgs EXCEPT !.title = t, !.new_content = c, !.replace_heading = rh]
        /\ res' = replace_markdown_section_content(markdown_string, t, c, rh)
    /\ op' = "replace"
    /\ UNCHANGED <<markdown_string, res2>>

AddSection ==
    /\ op = "init"
    /\ \E c \in Contents, ah \in AfterHeadings, ab \in BOOLEAN :
        /\ args' = [NoArgs EXCEPT !.new_content = c, !.after_heading = ah, !.at_beginning = ab]
        /\ res' = add_markdown_section(markdown_string, c, ah, ab)
    /\ op' = "add"
    /\ UNCHANGED <<markdown_string, res2>>

Upsert ==
    /\ op = "init"
    /\ \E t \in Titles, c \in Contents, rh \in BOOLEAN, pl \in Placements :
        /\ args' = [NoArgs EXCEPT !.title = t, !.new_content = c, !.replace_heading = rh,
                                  !.after_heading = pl[1], !.at_beginning = pl[2]]
        /\ res' = add_or_replace_markdown_section_content(
                       markdown_string, t, c, rh, pl[1], pl[2])
    /\ op' = "upsert"
    /\ UNCHANGED <<markdown_string, res2>>

UpsertAgain ==
    /\ op = "upsert"
    /\ res.err = "none"
    /\ res2' = add_or_replace_markdown_section_content(
                   res.doc, args.title, args.new_content, args.replace_heading,
                   args.after_heading, args.at_beginning)
    /\ op' = "upsert2"
    /\ UNCHANGED <<markdown_string, args, res>>

FindHeading ==
    /\ op = "init"
    /\ \E t \in Titles, l \in Levels, s \in StartLines :
        /\ args' = [NoArgs EXCEPT !.title = t, !.level = l, !.start_line = s]
        /\ res' = [Blank EXCEPT
                     !.start = find_markdown_heading(string_to_lines(markdown_string), t, l, s)]
    /\ op' = "heading"
    /\ UNCHANGED <<markdown_string, res2>>

\* the serialization of replace_markdown_section_content on its own: the
\* document split into lines and joined again
Serialize ==
    /\ op = "init"
    /\ res' = [Blank EXCEPT !.doc = lines_to_string(string_to_lines(markdown_string))]
    /\ op' = "serialize"
    /\ UNCHANGED <<markdown_string, args, res2>>

\* the serialized document split and joined once more
SerializeAgain ==
    /\ op = "serialize"
    /\ res2' = [Blank EXCEPT !.doc = lines_to_string(string_to_lines(res.doc))]
    /\ op' = "serialize2"
    /\ UNCHANGED <<markdown_string, args, res>>

Next ==
    \/ FindSection
    \/ ReplaceSection
    \/ AddSection
    \/ Upsert
    \/ UpsertAgain
    \/ FindHeading
    \/ Serialize
    \/ SerializeAgain

Spec == Init /\ [][Next]_vars

(***************************************************************************)
(* What the specification says of a section, stated over the lines of a    *)
(* document: a heading line titled T, and the half-open range it anchors.  *)
(***************************************************************************)
\* the lines of the document the call was made on
InputLines == string_to_lines(markdown_string)

\* 0-based index i is a line the code takes for a heading of title t
TitledAt(lines, i, t) == HeadingRegexMatches(At(lines, i), t, None)

\* the document has a heading the code takes for title t
Present(lines, t) == \E i \in 0..(Len(lines) - 1) : TitledAt(lines, i, t)

\* 0-based index j > s is a heading line no deeper than the heading at s
Terminates(lines, s, j) ==
    /\ j > s
    /\ j < Len(lines)
    /\ IsHeadingLine(At(lines, j))
    /\ get_heading_level(At(lines, j)) <= get_heading_level(At(lines, s))

\* the exclusive end of the section anchored at s: the first terminating
\* heading, or the document's length
ExclusiveEnd(lines, s) ==
    IF \E j \in 0..(Len(lines) - 1) : Terminates(lines, s, j)
    THEN Min({ j \in 0..(Len(lines) - 1) : Terminates(lines, s, j) })
    ELSE Len(lines)

\* the first heading of title t in the whole document
FirstTitled(lines, t) == Min({ i \in 0..(Len(lines) - 1) : TitledAt(lines, i, t) })

\* the lines of new_content
ContentLines == string_to_lines(args.new_content)

\* a string that is empty or ends with a line terminator
Terminated(string) == string = <<>> \/ string[Len(string)] = "\n"

\* new_content is heading-stable for the call: its first line is a heading
\* of the title asked for, at the level of the document's heading of that
\* title when the document has one
HeadingStable ==
    /\ ContentLines # <<>>
    /\ TitledAt(ContentLines, 0, args.title)
    /\ Present(InputLines, args.title) =>
         get_heading_level(At(ContentLines, 0))
           = get_heading_level(At(InputLines, FirstTitled(InputLines, args.title)))

(***************************************************************************)
(* C1.  Upsert is idempotent: with heading-stable content, the upsert      *)
(* applied to its own result returns that result again, as a string.       *)
(***************************************************************************)
C1_UpsertIdempotent ==
    (op = "upsert2" /\ HeadingStable) =>
        /\ res2.err = "none"
        /\ res2.doc = res.doc

(***************************************************************************)
(* C2.  Replace with replace_heading = false on a document that has the    *)
(* section at [start, end): the result is the lines up to and including    *)
(* the heading, then the new content, then the lines from end on           *)
(* (serialized by lines_to_string).                                        *)
(***************************************************************************)
C2_ReplaceKeepsHeading ==
    (op = "replace" /\ ~args.replace_heading /\ Present(InputLines, args.title)) =>
        LET start == FirstTitled(InputLines, args.title)
        IN  /\ res.err = "none"
            /\ res.changed
            /\ res.doc = lines_to_string(
                   SubSeq(InputLines, 1, start + 1)
                   \o ContentLines
                   \o SubSeq(InputLines, ExclusiveEnd(InputLines, start) + 1, Len(InputLines)))

(***************************************************************************)
(* C3.  Replace with replace_heading = true on a document that has the     *)
(* section at [start, end): the result is every line before the heading,   *)
(* then the new content, then the lines from end on; with start = 0 it     *)
(* begins with the new content.                                            *)
(***************************************************************************)
C3_ReplaceWithHeading ==
    (op = "replace" /\ args.replace_heading /\ Present(InputLines, args.title)) =>
        LET start == FirstTitled(InputLines, args.title)
        IN  /\ res.err = "none"
            /\ res.changed
            /\ res.doc = lines_to_string(
                   SubSeq(InputLines, 1, start)
                   \o ContentLines
                   \o SubSeq(InputLines, ExclusiveEnd(InputLines, start) + 1, Len(InputLines)))

(***************************************************************************)
(* C4.  Replace on a document with no heading of the title returns the     *)
(* document unchanged with changed = false, and does not fail.             *)
(***************************************************************************)
C4_ReplaceAbsentUnchanged ==
    (op = "replace" /\ ~Present(InputLines, args.title)) =>
        /\ res.err = "none"
        /\ ~res.changed
        /\ res.doc \in { markdown_string, lines_to_string(InputLines) }

(***************************************************************************)
(* C5.  find_section for a title with no heading at or after the start     *)
(* offset returns (NOT_FOUND, NOT_FOUND) and does not fail; a start that   *)
(* is returned is a heading line of that title.                            *)
(***************************************************************************)
C5_FindAbsentIsNotFound ==
    op = "find" =>
        /\ MatchingLines(InputLines, args.title, args.level, args.start_line) = {}
             => (res.err = "none" /\ res.start = None /\ res.end = None)
        /\ (res.err = "none" /\ res.start # None)
             => (/\ res.start < Len(InputLines)
                 /\ HeadingRegexMatches(At(InputLines, res.start), args.title, args.level))

(***************************************************************************)
(* C6.  As claimed: for a section found at start, find_section's end is    *)
(* the index of the first later heading no deeper than the anchor, or the  *)
(* number of lines when there is none.                                     *)
(***************************************************************************)
C6_EndIsExclusive ==
    (op = "find"
       /\ MatchingLines(InputLines, args.title, args.level, args.start_line) # {}) =>
        /\ res.err = "none"
        /\ res.start = Min(MatchingLines(InputLines, args.title, args.level, args.start_line))
        /\ res.end = ExclusiveEnd(InputLines, res.start)

(***************************************************************************)
(* C6, amended.  For a section found at start (the first line at or after  *)
(* the start offset that the title pattern matches), find_section's end is *)
(* the index of the section's last line: one less than the index of the    *)
(* first later heading no deeper than the anchor, and the number of lines  *)
(* less one when there is none.  Deeper headings never end the section.    *)
(***************************************************************************)
C6_EndIsLastLine ==
    (op = "find"
       /\ MatchingLines(InputLines, args.title, args.level, args.start_line) # {}) =>
        /\ res.err = "none"
        /\ res.start = Min(MatchingLines(InputLines, args.title, args.level, args.start_line))
        /\ res.end = ExclusiveEnd(InputLines, res.start) - 1
        /\ \A j \in (res.start + 1)..res.end : ~Terminates(InputLines, res.start, j)

\* a section found at the first line, with a deeper heading inside it and a
\* heading of its own level ending it: the result is (0, 1)
C6_Witness ==
    /\ op = "find"
    /\ Len(InputLines) = 3
    /\ HeadingRegexMatches(At(InputLines, 0), args.title, args.level)
    /\ IsHeadingLine(At(InputLines, 1))
    /\ get_heading_level(At(InputLines, 1)) > get_heading_level(At(InputLines, 0))
    /\ IsHeadingLine(At(InputLines, 2))
    /\ get_heading_level(At(InputLines, 2)) = get_heading_level(At(InputLines, 0))
    /\ res.start = 0
    /\ res.end = 1

(***************************************************************************)
(* C7.  An upsert on a document with no heading of the title does not      *)
(* fail and returns what add_section returns for the same placement.       *)
(***************************************************************************)
C7_UpsertAbsentFallsBack ==
    (op = "upsert" /\ ~Present(InputLines, args.title)) =>
        /\ res.err = "none"
        /\ res.doc = add_markdown_section(markdown_string, args.new_content,
                                          args.after_heading, args.at_beginning).doc

(***************************************************************************)
(* C8.  add_section with no placement, or after a heading the document     *)
(* does not have, returns the document's lines followed by the lines of    *)
(* the new content and nothing else, with changed = true (stated for a     *)
(* document whose last line is terminated).                                *)
(***************************************************************************)
C8_AddAppendsAtEnd ==
    (op = "add"
       /\ ~args.at_beginning
       /\ Terminated(markdown_string)
       /\ (Truthy(args.after_heading)
             => find_markdown_heading(InputLines, args.after_heading, None, 0) = None)) =>
        /\ res.err = "none"
        /\ res.changed
        /\ res.doc = markdown_string \o args.new_content

\* the lines of a successful call's document
ResultLines == string_to_lines(res.doc)

\* find_heading's answer for title t is its answer on the original
\* document, moved by the number of lines of new_content
ShiftedBy(t) ==
    find_markdown_heading(ResultLines, t, None, 0)
      = find_markdown_heading(InputLines, t, None, 0) + Len(ContentLines)

\* title t is a heading of the original document and not of new_content
OnlyInDocument(t) ==
    /\ find_markdown_heading(InputLines, t, None, 0) # None
    /\ find_markdown_heading(ContentLines, t, None, 0) = None

C10_ConflictingPlacement ==
    op = "add" =>
        IF Truthy(args.after_heading) /\ args.at_beginning
        THEN res = Raise("AssertionError")
        ELSE res.err = "none" /\ res.changed

\* both placements given: the assertion fails
C10_Witness ==
    /\ op = "add"
    /\ args.after_heading = <<"b">>
    /\ args.at_beginning
    /\ res.err = "AssertionError"

\* the title of a heading line: the text after the marker run, trimmed
TitleOf(line) == strip(SubSeq(line, MarkerRun(line) + 1, Len(line)))

\* 0-based index i is a heading whose trimmed title is exactly t and, when
\* a level is given, whose marker count is that level
ExactlyTitledAt(lines, i, t, level) ==
    /\ IsHeadingLine(At(lines, i))
    /\ TitleOf(At(lines, i)) = strip(t)
    /\ level # None => MarkerRun(At(lines, i)) = level

\* the indices at or after the start offset of the headings titled exactly t
ExactMatches(lines, t, level, start_offset) ==
    { i \in 0..(Len(lines) - 1) :
        i >= start_offset /\ ExactlyTitledAt(lines, i, t, level) }

(***************************************************************************)
(* C11.  find_heading returns the smallest index at or after the start     *)
(* offset of a heading whose trimmed title equals the title exactly (a     *)
(* heading whose title only begins with it does not match) and whose       *)
(* marker count equals the level when one is given; NOT_FOUND when there   *)
(* is no such index.                                                       *)
(***************************************************************************)
C11_FindHeadingExactTitle ==
    op = "heading" =>
        LET exact == ExactMatches(InputLines, args.title, args.level, args.start_line)
        IN  res.start = IF exact = {} THEN None ELSE Min(exact)

(***************************************************************************)
(* C12.  add_section after a heading the document has: the result is the   *)
(* lines up to and including the first matching heading, then the lines    *)
(* of new_content as one block, then the remaining lines, every original   *)
(* line kept once and in order (stated for a document and a new_content    *)
(* whose last lines are terminated, so that the lines' own terminators     *)
(* make up the string).                                                    *)
(***************************************************************************)
C12_AddAfterHeading ==
    (op = "add"
       /\ ~args.at_beginning
       /\ Truthy(args.after_heading)
       /\ Terminated(markdown_string)
       /\ Terminated(args.new_content)
       /\ find_markdown_heading(InputLines, args.after_heading, None, 0) # None) =>
        LET h == find_markdown_heading(InputLines, args.after_heading, None, 0)
        IN  /\ res.err = "none"
            /\ res.changed
            /\ string_to_lines(res.doc)
                 = SubSeq(InputLines, 1, h + 1)
                   \o ContentLines
                   \o SubSeq(InputLines, h + 2, Len(InputLines))

(***************************************************************************)
(* C13.  The serialization is a fixed point after one pass: splitting and  *)
(* joining the serialized document returns it unchanged; a document that   *)
(* ends in blank lines or a line terminator is not shortened again.        *)
(***************************************************************************)
C13_SerializationFixedPoint ==
    op = "serialize2" => res2.doc = res.doc

====
